---- MODULE Spec2Model ----
(***************************************************************************)
(* The order and inventory engine of bplvkit: the SQLite store of          *)
(* db_driver.py (bevs, tax_rates, order_batches, batch_items,              *)
(* transactions, transaction_items), the session layer of api.py that      *)
(* calls it, and the JSON backed direct order path of tools.py.            *)
(*                                                                         *)
(* Text values are sequences of one-character strings, so that id          *)
(* derivation and SQLite's integer-to-text conversion are computed.        *)
(* Money: prices and line totals are integers (minor units); tax amounts   *)
(* are kept in hundredths of a minor unit (line_total * rate * 100), the   *)
(* exact value of the product the code computes in floating point.         *)
(***************************************************************************)
EXTENDS Integers, Sequences, FiniteSets, TLC

\* ------------------------------------------------------------------ bounds
MaxBatches == 2
MaxItems == 2
MaxTxns == 2
MaxOrders == 2
MaxActive == 2
MaxHistory == 2

\* ------------------------------------------------------------ input domains
\* Beverage ids: a slug, and an id that reads as a row number.
GT == <<"g", "_", "t">>
ONE == <<"1">>
BevIds == {GT, ONE}
\* The ids callers create, delete and add under Spec.
CatalogIds == {GT}
\* Beverage references a session passes: a free-text name and an id.
Refs == {<<"G", " ", "T">>, GT}
Quantities == {3}
BevInputs == [price : {1000}, inventory : {1, 10}, sales : {0}]
\* Item lists of a direct transaction: none or one line, with or without a
\* tax_category key.
DirectItems == [id : CatalogIds, quantity : Quantities]
    \cup [id : CatalogIds, quantity : Quantities, tax_category : {"bottle"}]
\* Items of the JSON array that lack a quantity.
MalformedItems == [id : CatalogIds]
DirectItemLists == {<<>>} \cup {<<it>> : it \in DirectItems \cup MalformedItems}
    \cup {<<bad, it>> : bad \in MalformedItems, it \in [id : CatalogIds, quantity : Quantities]}
PaymentMethods == {"cash"}
Tables == {"5"}
\* drinks.json as BevTools loads it, and the orders placed against it.
DrinkNames == {"Mojito", "Lager"}
OrderLines == [name : DrinkNames \cup {"Unknown"}, quantity : Quantities]
OrderLists == {<<l>> : l \in OrderLines}
    \cup {<<l, m>> : l \in OrderLines, m \in [name : DrinkNames, quantity : Quantities]}

\* Inputs no caller-side check has filtered: quantities, payment methods and
\* table numbers as the driver and the session layer receive them.
AnyQuantities == {0, 3}
AnyPaymentMethods == {"bitcoin"}
AnyItemLists == {<<[id |-> GT, quantity |-> q]>> : q \in AnyQuantities}

\* The catalog a session edits: a slug and an id written like a name, the
\* records stored under them and the optional arguments of update_bev (an
\* empty set is an argument left at None).
NAME == <<"G", " ", "T">>
CatalogKeys == {GT, NAME}
CatalogBevs == [price : {1000}, inventory : {1, 10}, sales : {0, 5}]
Patches == [price : {{}, {2000}}, inventory : {{}, {10}}]

\* The beverages, confidences (in tenths) and limits of the recommendation
\* calls, and the ordered pairs recommendations are entered for.
IPA == <<"i", "p", "a">>
RecIds == {GT, ONE, IPA}
RecBevs == [price : {1000}, inventory : {10}, sales : {0, 5},
            category : {"beer"}, subcategory : {"ale", "lager"}]
RecPairs == {<<GT, ONE>>, <<GT, IPA>>, <<ONE, GT>>}
Confidences == {5, 9}
Limits == {1, 3}

\* BevTools orders: the stock update_inventory sets for each drink of the
\* menu, the quantities asked for and the statuses given.
StockLevel == 3
AddQuantities == {2, 5}
Statuses == {"preparing", "completed"}

Workers == {1, 2}
BatchIds == 1..MaxBatches
NoBev == [absent |-> TRUE]
\* An empty dict.
NoOrders == [o \in {} |-> 0]
\* AssistantFnc._bev_details with no beverage selected: "" and 0 in every field.
NoSelection == [id |-> <<>>, price |-> 0, inventory |-> 0, sales |-> 0]

VARIABLES
    bevs,               \* table bevs: id -> row or NoBev
    tax_rates,          \* table tax_rates: rows in insertion order
    order_batches,      \* table order_batches: row batch_id is order_batches[batch_id]
    batch_items,        \* table batch_items: row item_id is batch_items[item_id]
    transactions,       \* table transactions: row transaction_id is transactions[id]
    transaction_items,  \* table transaction_items, in insertion order
    current_batch_id,   \* AssistantFnc._current_batch_id (0 is None)
    call,               \* per worker: the process_batch_to_transaction call in flight
    drinks_data,        \* BevTools.drinks_data: name -> [price, inventory, sales]
    orders,             \* table orders of BevTools, in insertion order
    bev_details,        \* AssistantFnc._bev_details: the selected beverage
    drink_recommendations,  \* table drink_recommendations, in insertion order
    active_orders,      \* BevTools.active_orders: order id -> [items, status]
    inventory,          \* BevTools.inventory: drink name -> units
    order_history       \* BevTools.order_history: the ids of the orders appended

vars == <<bevs, tax_rates, order_batches, batch_items, transactions,
          transaction_items, current_batch_id, call, drinks_data, orders,
          bev_details, drink_recommendations, active_orders, inventory,
          order_history>>
dbvars == <<bevs, tax_rates, order_batches, batch_items, transactions,
            transaction_items>>
\* The in-memory orders of BevTools.
ordervars == <<active_orders, inventory, order_history>>
toolvars == <<drinks_data, orders, ordervars>>
\* The selection of the session and the recommendation table.
sidevars == <<bev_details, drink_recommendations>>

\* ------------------------------------------------------------ text helpers
\* str.lower() on one character of the alphabet used here.
Lower(c) ==
    CASE c = "G" -> "g"
      [] c = "T" -> "t"
      [] OTHER -> c

\* An id derivation that replaces the spaces and keeps the case.
GenerateIdKeepCase(name) ==
    [i \in 1..Len(name) |-> IF name[i] = " " THEN "_" ELSE name[i]]

\* DatabaseDriver._generate_id: name.lower().replace(" ", "_")
GenerateId(name) ==
    [i \in 1..Len(name) |-> IF Lower(name[i]) = " " THEN "_" ELSE Lower(name[i])]

Digit(d) ==
    <<"0", "1", "2", "3", "4", "5", "6", "7", "8", "9">>[d + 1]

RECURSIVE ToText(_)
\* SQLite renders an integer bound to a TEXT column as its decimal text.
ToText(n) ==
    IF n < 10 THEN <<Digit(n)>> ELSE ToText(n \div 10) \o <<Digit(n % 10)>>

\* The table of the n-th batch under SpecInputs: every batch is for a table
\* of its own.
TableOfBatch(n) ==
    ToText(4 + n)

RECURSIVE SumSeq(_)
SumSeq(s) ==
    IF s = <<>> THEN 0 ELSE Head(s) + SumSeq(Tail(s))

\* A set of row ids as a sequence in ascending order (rowid order).
RECURSIVE Ascending(_)
Ascending(S) ==
    IF S = {} THEN <<>>
    ELSE LET m == CHOOSE x \in S : \A y \in S : x <= y
         IN  <<m>> \o Ascending(S \ {m})

\* ORDER BY f DESC over the rows S: f is the column, as a function on S.
RECURSIVE OrderDesc(_, _)
OrderDesc(S, f) ==
    IF S = {} THEN <<>>
    ELSE LET m == CHOOSE x \in S : \A y \in S : f[x] >= f[y]
         IN  <<m>> \o OrderDesc(S \ {m}, f)

\* LIMIT n with n >= 0.
Limit(rows, n) ==
    SubSeq(rows, 1, IF n < Len(rows) THEN n ELSE Len(rows))

\* ------------------------------------------------------------------ catalog
\* DatabaseDriver.get_bev_by_id / SELECT ... FROM bevs WHERE id = ?
get_bev_by_id(id) ==
    IF id \in DOMAIN bevs THEN bevs[id] ELSE NoBev

\* The literal-then-derived lookup of AssistantFnc.add_to_batch: the id the
\* reference resolves to, or <<>> when it resolves to none.
ResolveRef(ref) ==
    IF get_bev_by_id(ref) # NoBev THEN ref
    ELSE IF get_bev_by_id(GenerateId(ref)) # NoBev THEN GenerateId(ref)
    ELSE <<>>

\* The lookup of AssistantFnc.update_bev, delete_bev, get_recommendations
\* and create_transaction: the reference is taken as an id and nothing else.
LiteralRef(ref) ==
    IF get_bev_by_id(ref) # NoBev THEN ref ELSE <<>>

\* An upsert that inserts when the id is absent and otherwise keeps the
\* stored row.
InsertIfAbsent(table, id, b) ==
    IF table[id] = NoBev THEN [table EXCEPT ![id] = b] ELSE table

\* The bevs table after the statement of DatabaseDriver.create_bev: the
\* UPDATE sets every column of the row with that id, the INSERT adds the row.
UpsertRow(table, id, b) ==
    [table EXCEPT ![id] = b]

\* DatabaseDriver.create_bev: insert, or overwrite every column.
create_bev(id, b) ==
    /\ bevs' = UpsertRow(bevs, id, b)
    /\ UNCHANGED <<tax_rates, order_batches, batch_items, transactions,
                   transaction_items, current_batch_id, call, toolvars, sidevars>>

\* DatabaseDriver.delete_bev: DELETE FROM bevs WHERE id = ?
delete_bev(id) ==
    /\ bevs' = [bevs EXCEPT ![id] = NoBev]
    /\ UNCHANGED <<tax_rates, order_batches, batch_items, transactions,
                   transaction_items, current_batch_id, call, toolvars, sidevars>>

\* ---------------------------------------------------------------- tax policy
\* Rates in percent.
DefaultRates ==
    << [tax_type |-> "pour/shot", rate |-> 7],
       [tax_type |-> "glass", rate |-> 7],
       [tax_type |-> "bottle", rate |-> 9],
       [tax_type |-> "event", rate |-> 10] >>

\* A seeding that does not look at the rows already there.
initialize_tax_rates_unguarded ==
    /\ tax_rates' = tax_rates \o DefaultRates
    /\ UNCHANGED <<bevs, order_batches, batch_items, transactions,
                   transaction_items, current_batch_id, call, toolvars, sidevars>>

\* DatabaseDriver.initialize_tax_rates: seeds only an empty table.
initialize_tax_rates ==
    /\ tax_rates' = IF Len(tax_rates) = 0 THEN DefaultRates ELSE tax_rates
    /\ UNCHANGED <<bevs, order_batches, batch_items, transactions,
                   transaction_items, current_batch_id, call, toolvars, sidevars>>

\* SELECT ... FROM tax_rates WHERE tax_type = ? : the matching row ids.
TaxRows(tax_category) ==
    Ascending({i \in 1..Len(tax_rates) : tax_rates[i].tax_type = tax_category})

\* The rate, in percent, calculate_item_tax applies (0.07 when no row matches).
TaxRate(tax_category) ==
    IF TaxRows(tax_category) = <<>> THEN 7
    ELSE tax_rates[Head(TaxRows(tax_category))].rate

\* DatabaseDriver.calculate_item_tax: <<line_total, tax_amount>>.
calculate_item_tax(item_id, quantity, tax_category) ==
    IF get_bev_by_id(item_id) = NoBev THEN <<0, 0>>
    ELSE << get_bev_by_id(item_id).price * quantity,
            get_bev_by_id(item_id).price * quantity * TaxRate(tax_category) >>

\* rowcount > 0 of the DELETE: whether a row with that id existed.
delete_bev_returns(id) ==
    get_bev_by_id(id) # NoBev

\* AssistantFnc._bev_details once a beverage has been selected.
Selected(id, b) ==
    [id |-> id, price |-> b.price, inventory |-> b.inventory, sales |-> b.sales]

\* AssistantFnc.lookup_bev: literal id, then the id derived from the name;
\* the beverage found becomes the selection.
lookup_bev(ref) ==
    /\ bev_details' = IF ResolveRef(ref) = <<>> THEN bev_details
                      ELSE Selected(ResolveRef(ref), get_bev_by_id(ResolveRef(ref)))
    /\ UNCHANGED <<dbvars, current_batch_id, call, toolvars, drink_recommendations>>

\* AssistantFnc.create_bev: the driver's upsert, and the result selected.
api_create_bev(id, b) ==
    /\ bevs' = UpsertRow(bevs, id, b)
    /\ bev_details' = Selected(id, b)
    /\ UNCHANGED <<tax_rates, order_batches, batch_items, transactions,
                   transaction_items, current_batch_id, call, toolvars,
                   drink_recommendations>>

\* The row AssistantFnc.update_bev writes: arguments left at None keep the
\* stored value, and sales is always the stored one.
UpdatedBev(current_bev, patch) ==
    [ price |-> IF patch.price = {} THEN current_bev.price
                ELSE CHOOSE v \in patch.price : TRUE,
      inventory |-> IF patch.inventory = {} THEN current_bev.inventory
                    ELSE CHOOSE v \in patch.inventory : TRUE,
      sales |-> current_bev.sales ]

\* AssistantFnc.update_bev: looks the id up literally, writes the patched
\* row through create_bev and selects it.
update_bev(bev_id, patch) ==
    /\ IF get_bev_by_id(bev_id) = NoBev
       THEN UNCHANGED <<bevs, bev_details>>
       ELSE /\ bevs' = UpsertRow(bevs, bev_id, UpdatedBev(bevs[bev_id], patch))
            /\ bev_details' = Selected(bev_id, UpdatedBev(bevs[bev_id], patch))
    /\ UNCHANGED <<tax_rates, order_batches, batch_items, transactions,
                   transaction_items, current_batch_id, call, toolvars,
                   drink_recommendations>>

\* The selection AssistantFnc.delete_bev leaves: emptied when the driver
\* reports a deleted row and the selected id is the deleted one.
SelectionAfterDelete(bev_id) ==
    IF delete_bev_returns(bev_id) /\ bev_details.id = bev_id
    THEN NoSelection ELSE bev_details

\* AssistantFnc.delete_bev
api_delete_bev(bev_id) ==
    /\ bevs' = [bevs EXCEPT ![bev_id] = NoBev]
    /\ bev_details' = SelectionAfterDelete(bev_id)
    /\ UNCHANGED <<tax_rates, order_batches, batch_items, transactions,
                   transaction_items, current_batch_id, call, toolvars,
                   drink_recommendations>>

\* ---------------------------------------------------------- recommendations
\* The rows of drink_recommendations with the given pair.
RecRows(bev_id, recommended_bev_id) ==
    {i \in 1..Len(drink_recommendations) :
        /\ drink_recommendations[i].bev_id = bev_id
        /\ drink_recommendations[i].recommended_bev_id = recommended_bev_id}

\* An add_recommendation that inserts a row at every call.
add_recommendation_insert(bev_id, recommended_bev_id, confidence) ==
    /\ drink_recommendations' = Append(drink_recommendations,
          [ bev_id |-> bev_id,
            recommended_bev_id |-> recommended_bev_id,
            confidence |-> confidence ])
    /\ UNCHANGED <<dbvars, current_batch_id, call, toolvars, bev_details>>

\* DatabaseDriver.add_recommendation: UPDATE the confidence of the pair's
\* rows, or INSERT the pair; neither id is looked up in bevs.
add_recommendation(bev_id, recommended_bev_id, confidence) ==
    /\ drink_recommendations' =
          IF RecRows(bev_id, recommended_bev_id) # {}
          THEN [i \in 1..Len(drink_recommendations) |->
                   IF i \in RecRows(bev_id, recommended_bev_id)
                   THEN [drink_recommendations[i] EXCEPT !.confidence = confidence]
                   ELSE drink_recommendations[i]]
          ELSE Append(drink_recommendations,
                   [ bev_id |-> bev_id,
                     recommended_bev_id |-> recommended_bev_id,
                     confidence |-> confidence ])
    /\ UNCHANGED <<dbvars, current_batch_id, call, toolvars, bev_details>>

\* The first query of get_recommendations: the rows of bev_id whose
\* recommended beverage is in bevs (JOIN), by confidence descending.
ExplicitRecommendations(bev_id, limit) ==
    LET rows == {i \in 1..Len(drink_recommendations) :
                    /\ drink_recommendations[i].bev_id = bev_id
                    /\ get_bev_by_id(drink_recommendations[i].recommended_bev_id) # NoBev}
        sorted == Limit(OrderDesc(rows,
                      [i \in rows |-> drink_recommendations[i].confidence]), limit)
    IN  [k \in 1..Len(sorted) |->
            [ id |-> drink_recommendations[sorted[k]].recommended_bev_id,
              confidence |-> drink_recommendations[sorted[k]].confidence ]]

\* The fallback query: the other beverages with the category and subcategory
\* of bev_id, by sales descending, each with confidence 0.7.
SimilarBevs(bev_id, limit) ==
    LET rows == {id \in DOMAIN bevs :
                    /\ bevs[id] # NoBev
                    /\ bevs[id].category = bevs[bev_id].category
                    /\ bevs[id].subcategory = bevs[bev_id].subcategory
                    /\ id # bev_id}
        sorted == Limit(OrderDesc(rows, [id \in rows |-> bevs[id].sales]), limit)
    IN  [k \in 1..Len(sorted) |-> [id |-> sorted[k], confidence |-> 7]]

\* DatabaseDriver.get_recommendations
get_recommendations(bev_id, limit) ==
    IF ExplicitRecommendations(bev_id, limit) # <<>>
    THEN ExplicitRecommendations(bev_id, limit)
    ELSE IF get_bev_by_id(bev_id) = NoBev THEN <<>>
    ELSE SimilarBevs(bev_id, limit)

\* ------------------------------------------------------------------- ledger
\* item.get('tax_category', 'pour/shot')
ItemCategory(item) ==
    IF "tax_category" \in DOMAIN item THEN item.tax_category ELSE "pour/shot"

\* DatabaseDriver.record_tax_detail, called while create_transaction's own
\* connection holds an open write transaction: when a tax_rates row matches,
\* its INSERT runs on a second connection, cannot take the write lock, and
\* raises "database is locked" once the busy timeout ends; when no row
\* matches it returns before writing.
record_tax_detail_raises(tax_category) ==
    TaxRows(tax_category) # <<>>

\* The transaction_items row create_transaction inserts for one item.
TransactionItemRow(transaction_id, item) ==
    LET lt == calculate_item_tax(item.id, item.quantity, ItemCategory(item))
    IN  [ transaction_id |-> transaction_id,
          item_id |-> item.id,
          quantity |-> item.quantity,
          unit_price |-> IF item.quantity > 0 THEN lt[1] \div item.quantity ELSE 0,
          line_total |-> lt[1],
          tax_category |-> ItemCategory(item),
          tax_amount |-> lt[2] ]

\* Item rows carrying the id of the latest existing transaction instead of the
\* id the INSERT has just been given.
NewItemRowsStale(items) ==
    [i \in 1..Len(items) |-> TransactionItemRow(Len(transactions), items[i])]

\* The rows of one create_transaction call: transaction_id is cursor.lastrowid
\* of the INSERT INTO transactions, one more than the largest id in the table.
NewItemRows(items) ==
    [i \in 1..Len(items) |-> TransactionItemRow(Len(transactions) + 1, items[i])]

\* total_amount accumulates line_total only.
TotalAmount(rows) ==
    SumSeq([i \in 1..Len(rows) |-> rows[i].line_total])

\* total_tax accumulates tax_amount.
TotalTax(rows) ==
    SumSeq([i \in 1..Len(rows) |-> rows[i].tax_amount])

\* Whether DatabaseDriver.create_transaction raises: the exception leaves the
\* with-block before conn.commit(), so every row it inserted is rolled back.
create_transaction_raises(items) ==
    \E i \in 1..Len(items) : record_tax_detail_raises(ItemCategory(items[i]))

\* A create_transaction whose closing UPDATE of the totals has no WHERE clause.
create_transaction_update_all(payment_method, items) ==
    /\ ~create_transaction_raises(items)
    /\ transactions' =
          [i \in 1..(Len(transactions) + 1) |->
              [ total_amount |-> TotalAmount(NewItemRows(items)),
                tax_amount |-> TotalTax(NewItemRows(items)),
                payment_method |-> IF i <= Len(transactions)
                                   THEN transactions[i].payment_method
                                   ELSE payment_method ]]
    /\ transaction_items' = transaction_items \o NewItemRows(items)

\* The committed effect of DatabaseDriver.create_transaction on the ledger;
\* it returns the new row's id, Len(transactions) + 1.
create_transaction(payment_method, items) ==
    /\ ~create_transaction_raises(items)
    /\ transactions' = Append(transactions,
          [ total_amount |-> TotalAmount(NewItemRows(items)),
            tax_amount |-> TotalTax(NewItemRows(items)),
            payment_method |-> payment_method ])
    /\ transaction_items' = transaction_items \o NewItemRows(items)

\* The items AssistantFnc.create_transaction keeps: those with an "id" and a
\* "quantity" key.
FormattedItems(items) ==
    SelectSeq(items, LAMBDA it : "id" \in DOMAIN it /\ "quantity" \in DOMAIN it)

\* AssistantFnc.create_transaction: the direct (non-batch) entry point. A
\* list with no valid item is refused; an exception of the driver becomes a
\* message.
api_create_transaction(items, payment_method) ==
    /\ IF FormattedItems(items) = <<>> \/ create_transaction_raises(FormattedItems(items))
       THEN UNCHANGED <<transactions, transaction_items>>
       ELSE create_transaction(payment_method, FormattedItems(items))
    /\ UNCHANGED <<bevs, tax_rates, order_batches, batch_items,
                   current_batch_id, call, toolvars, sidevars>>

\* ------------------------------------------------------------------ receipt
\* The transaction_items rows generate_receipt returns: those of the
\* transaction whose item_id joins a beverage.
ReceiptItemRows(transaction_id) ==
    Ascending({k \in 1..Len(transaction_items) :
        /\ transaction_items[k].transaction_id = transaction_id
        /\ get_bev_by_id(transaction_items[k].item_id) # NoBev})

\* A receipt whose subtotal is summed from the joined item rows.
generate_receipt_from_items(transaction_id) ==
    IF transaction_id \notin 1..Len(transactions)
    THEN [error |-> "Transaction not found"]
    ELSE [ transaction_id |-> transaction_id,
           items |-> ReceiptItemRows(transaction_id),
           subtotal |-> 100 * SumSeq([k \in 1..Len(ReceiptItemRows(transaction_id)) |->
                           transaction_items[ReceiptItemRows(transaction_id)[k]].line_total]),
           tax |-> transactions[transaction_id].tax_amount,
           total |-> 100 * transactions[transaction_id].total_amount,
           payment_method |-> transactions[transaction_id].payment_method ]

\* DatabaseDriver.generate_receipt, amounts in hundredths of a minor unit.
generate_receipt(transaction_id) ==
    IF transaction_id \notin 1..Len(transactions)
    THEN [error |-> "Transaction not found"]
    ELSE [ transaction_id |-> transaction_id,
           items |-> ReceiptItemRows(transaction_id),
           subtotal |-> 100 * transactions[transaction_id].total_amount
                           - transactions[transaction_id].tax_amount,
           tax |-> transactions[transaction_id].tax_amount,
           total |-> 100 * transactions[transaction_id].total_amount,
           payment_method |-> transactions[transaction_id].payment_method ]

\* ------------------------------------------------------------------ revenue
\* The revenue_summary table: _init_db creates it and no statement of the
\* program inserts into it.
revenue_summary ==
    <<>>

\* The date create_transaction stamps on its row, datetime.now().date(); the
\* calls of one run fall on one day.
Today ==
    "today"

\* get_revenue_summary returning None.
NoSummary ==
    [none |-> TRUE]

\* DatabaseDriver.get_revenue_summary: the first revenue_summary row of the
\* date, or None.
get_revenue_summary(date) ==
    LET rows == SelectSeq(revenue_summary, LAMBDA r : r.date = date)
    IN  IF rows = <<>> THEN NoSummary
        ELSE [ total_sales |-> rows[1].total_sales,
               total_tax |-> rows[1].total_tax,
               transactions |-> rows[1].number_of_transactions ]

\* ------------------------------------------------------------ batch orders
BatchExists(batch_id) ==
    batch_id \in 1..Len(order_batches)

\* DatabaseDriver.create_batch_order; it returns the new row's id.
create_batch_order(table_number) ==
    /\ order_batches' = Append(order_batches,
          [table_number |-> table_number, status |-> "pending"])
    /\ UNCHANGED <<bevs, tax_rates, batch_items, transactions,
                   transaction_items, call, toolvars, sidevars>>

\* AssistantFnc.create_batch_order: the new batch becomes the current one.
api_create_batch_order(table_number) ==
    /\ create_batch_order(table_number)
    /\ current_batch_id' = Len(order_batches) + 1

\* An add_to_batch that reserves stock at add-time.
add_to_batch_reserving(batch_id, bev_id, quantity) ==
    /\ batch_items' = Append(batch_items,
          [batch_id |-> batch_id, bev_id |-> bev_id, quantity |-> quantity,
           status |-> "pending"])
    /\ bevs' = IF bev_id \in DOMAIN bevs /\ bevs[bev_id] # NoBev
               THEN [bevs EXCEPT ![bev_id].inventory = @ - quantity]
               ELSE bevs
    /\ UNCHANGED <<tax_rates, order_batches, transactions,
                   transaction_items, current_batch_id, call, toolvars, sidevars>>

\* DatabaseDriver.add_to_batch: an unconditional INSERT INTO batch_items.
add_to_batch(batch_id, bev_id, quantity) ==
    /\ batch_items' = Append(batch_items,
          [batch_id |-> batch_id, bev_id |-> bev_id, quantity |-> quantity,
           status |-> "pending"])
    /\ UNCHANGED <<bevs, tax_rates, order_batches, transactions,
                   transaction_items, current_batch_id, call, toolvars, sidevars>>

\* AssistantFnc.add_to_batch
api_add_to_batch(ref, quantity) ==
    IF current_batch_id = 0 \/ ResolveRef(ref) = <<>>
    THEN UNCHANGED vars
    ELSE add_to_batch(current_batch_id, ResolveRef(ref), quantity)

\* The item rows get_batch_order returns: batch_items JOIN bevs, by item_id.
BatchItemIds(batch_id) ==
    Ascending({i \in 1..Len(batch_items) :
        /\ batch_items[i].batch_id = batch_id
        /\ get_bev_by_id(batch_items[i].bev_id) # NoBev})

\* DatabaseDriver.get_batch_order: the subtotal of the joined rows.
BatchSubtotal(batch_id) ==
    SumSeq([k \in 1..Len(BatchItemIds(batch_id)) |->
        batch_items[BatchItemIds(batch_id)[k]].quantity
            * get_bev_by_id(batch_items[BatchItemIds(batch_id)[k]].bev_id).price])

\* DatabaseDriver.get_batch_order: an error record for an absent batch, else
\* the joined rows with the beverage's current price, their subtotal, the tax
\* at the fixed rate 0.07 and the total. tax and total are in hundredths of a
\* minor unit. The method runs SELECT statements only.
get_batch_order(batch_id) ==
    IF ~BatchExists(batch_id) THEN [error |-> "Batch order not found"]
    ELSE [ table_number |-> order_batches[batch_id].table_number,
           status |-> order_batches[batch_id].status,
           items |-> [k \in 1..Len(BatchItemIds(batch_id)) |->
               [ id |-> BatchItemIds(batch_id)[k],
                 quantity |-> batch_items[BatchItemIds(batch_id)[k]].quantity,
                 unit_price |->
                     get_bev_by_id(batch_items[BatchItemIds(batch_id)[k]].bev_id).price ]],
           subtotal |-> BatchSubtotal(batch_id),
           tax |-> BatchSubtotal(batch_id) * 7,
           total |-> 100 * BatchSubtotal(batch_id) + BatchSubtotal(batch_id) * 7 ]

\* DatabaseDriver.finalize_batch: self.conn is no attribute of the driver, so
\* the first statement raises and the handler returns False.
finalize_batch_returns(batch_id, payment_method) ==
    FALSE

finalize_batch(batch_id, payment_method) ==
    /\ ~finalize_batch_returns(batch_id, payment_method)
    /\ UNCHANGED vars

\* DatabaseDriver.cancel_batch: the same missing attribute; returns False.
cancel_batch_returns(batch_id) ==
    FALSE

cancel_batch(batch_id) ==
    /\ ~cancel_batch_returns(batch_id)
    /\ UNCHANGED vars

\* AssistantFnc.finalize_batch passes three arguments to
\* DatabaseDriver.finalize_batch(batch_id, payment_method): the call raises
\* TypeError, which the handler turns into an error message.
api_finalize_batch(payment_method) ==
    UNCHANGED vars

\* AssistantFnc.cancel_batch: clears the pointer only when the driver returns True.
api_cancel_batch ==
    /\ current_batch_id' =
          IF current_batch_id # 0 /\ cancel_batch_returns(current_batch_id)
          THEN 0 ELSE current_batch_id
    /\ UNCHANGED <<dbvars, call, toolvars, sidevars>>

\* ---------------------------------------- process_batch_to_transaction
\* The item list built from get_batch_order's rows: "id" is the row's item_id
\* (an integer), which SQLite compares and stores as text in create_transaction.
ItemsOfBatch(batch_id) ==
    [k \in 1..Len(BatchItemIds(batch_id)) |->
        [ id |-> ToText(BatchItemIds(batch_id)[k]),
          quantity |-> batch_items[BatchItemIds(batch_id)[k]].quantity,
          tax_category |-> "pour/shot" ]]

\* Whether a call returns a transaction id: the batch row exists and
\* create_transaction does not raise. (An absent batch returns -1.)
pbt_succeeds(batch_id) ==
    BatchExists(batch_id) /\ ~create_transaction_raises(ItemsOfBatch(batch_id))

\* A process_batch_to_transaction whose status UPDATE has no WHERE clause.
process_batch_to_transaction_all(batch_id, payment_method) ==
    IF pbt_succeeds(batch_id)
    THEN /\ create_transaction(payment_method, ItemsOfBatch(batch_id))
         /\ order_batches' = [i \in 1..Len(order_batches) |->
                                  [order_batches[i] EXCEPT !.status = "completed"]]
         /\ UNCHANGED <<bevs, tax_rates, batch_items, current_batch_id, call, toolvars, sidevars>>
    ELSE UNCHANGED vars

\* DatabaseDriver.process_batch_to_transaction, run without interleaving.
process_batch_to_transaction(batch_id, payment_method) ==
    IF pbt_succeeds(batch_id)
    THEN /\ create_transaction(payment_method, ItemsOfBatch(batch_id))
         /\ order_batches' = [order_batches EXCEPT ![batch_id].status = "completed"]
         /\ UNCHANGED <<bevs, tax_rates, batch_items, current_batch_id, call, toolvars, sidevars>>
    ELSE UNCHANGED vars

\* The same method as the three committed steps other callers can interleave
\* with: each uses a connection of its own.
Idle ==
    [pc |-> "idle", batch_id |-> 0, payment_method |-> "", items |-> <<>>,
     transaction_id |-> 0]

\* Step 1: get_batch_order; an absent batch returns -1.
pbt_read(w, batch_id, payment_method) ==
    /\ call[w].pc = "idle"
    /\ call' = IF BatchExists(batch_id)
               THEN [call EXCEPT ![w] =
                        [pc |-> "create", batch_id |-> batch_id,
                         payment_method |-> payment_method,
                         items |-> ItemsOfBatch(batch_id), transaction_id |-> 0]]
               ELSE call
    /\ UNCHANGED <<dbvars, current_batch_id, toolvars, sidevars>>

\* Step 2: create_transaction; an exception leaves the method.
pbt_create_transaction(w) ==
    /\ call[w].pc = "create"
    /\ IF create_transaction_raises(call[w].items)
       THEN /\ call' = [call EXCEPT ![w] = Idle]
            /\ UNCHANGED <<transactions, transaction_items>>
       ELSE /\ create_transaction(call[w].payment_method, call[w].items)
            /\ call' = [call EXCEPT ![w].pc = "update",
                                    ![w].transaction_id = Len(transactions) + 1]
    /\ UNCHANGED <<bevs, tax_rates, order_batches, batch_items,
                   current_batch_id, toolvars, sidevars>>

\* Step 3: UPDATE order_batches SET status = 'completed'; return transaction_id.
pbt_update_status(w) ==
    /\ call[w].pc = "update"
    /\ order_batches' = [order_batches EXCEPT ![call[w].batch_id].status = "completed"]
    /\ call' = [call EXCEPT ![w] = Idle]
    /\ UNCHANGED <<bevs, tax_rates, batch_items, transactions,
                   transaction_items, current_batch_id, toolvars, sidevars>>

\* The process dies between two steps of process_batch_to_transaction.
crash(w) ==
    /\ call[w].pc \in {"create", "update"}
    /\ call' = [call EXCEPT ![w] = Idle]
    /\ UNCHANGED <<dbvars, current_batch_id, toolvars, sidevars>>

\* --------------------------------------------------- BevTools.process_order
RECURSIVE ApplyOrder(_, _)
\* The loop of process_order over items: a known drink loses the quantity
\* from its inventory and gains it in sales, with no check.
ApplyOrder(data, items) ==
    IF items = <<>> THEN data
    ELSE LET it == Head(items)
             next == IF it.name \in DOMAIN data
                     THEN [data EXCEPT ![it.name].inventory = @ - it.quantity,
                                       ![it.name].sales = @ + it.quantity]
                     ELSE data
         IN  ApplyOrder(next, Tail(items))

\* The known drinks among items, as process_order keeps them.
ProcessedItems(data, items) ==
    SelectSeq(items, LAMBDA it : it.name \in DOMAIN data)

OrderTotal(data, items) ==
    SumSeq([i \in 1..Len(ProcessedItems(data, items)) |->
        data[ProcessedItems(data, items)[i].name].price
            * ProcessedItems(data, items)[i].quantity])

\* BevTools.process_order
process_order(items, payment_method) ==
    /\ drinks_data' = ApplyOrder(drinks_data, items)
    /\ orders' = Append(orders,
          [total |-> OrderTotal(drinks_data, items), payment_method |-> payment_method])
    /\ UNCHANGED <<dbvars, current_batch_id, call, sidevars, ordervars>>

\* ------------------------------------------------- BevTools orders
\* f"ORD{n}"
OrderId(n) ==
    <<"O", "R", "D">> \o ToText(n)

\* The keys of BevTools.menu: create_drink and delete_drink add and remove a
\* name in menu and in inventory together.
menu ==
    DOMAIN inventory

\* The order ids callers pass.
OrderIds ==
    {OrderId(n) : n \in 1..MaxActive}

\* The other variables of the model, which BevTools' order methods leave alone.
nonordervars ==
    <<dbvars, current_batch_id, call, sidevars, drinks_data, orders>>

\* BevTools.create_order: the id is numbered by the count of active orders,
\* and the new order is stored under it.
create_order ==
    /\ active_orders' =
          [o \in DOMAIN active_orders \cup {OrderId(Cardinality(DOMAIN active_orders) + 1)} |->
              IF o = OrderId(Cardinality(DOMAIN active_orders) + 1)
              THEN [items |-> <<>>, status |-> "pending"]
              ELSE active_orders[o]]
    /\ UNCHANGED <<inventory, order_history, nonordervars>>

\* BevTools.update_order_status: any status is stored; a completed order is
\* appended to order_history and stays in active_orders.
update_order_status(order_id, status) ==
    IF order_id \notin DOMAIN active_orders THEN UNCHANGED vars
    ELSE /\ active_orders' = [active_orders EXCEPT ![order_id].status = status]
         /\ order_history' = IF status = "completed"
                              THEN Append(order_history, order_id)
                              ELSE order_history
         /\ UNCHANGED <<inventory, nonordervars>>

\* Whether BevTools.add_to_order returns True.
add_to_order_returns(order_id, drink_name, quantity) ==
    /\ order_id \in DOMAIN active_orders
    /\ drink_name \in menu
    /\ ~(inventory[drink_name] < quantity)

\* An add_to_order without the inventory check.
add_to_order_unchecked(order_id, drink_name, quantity) ==
    IF order_id \in DOMAIN active_orders /\ drink_name \in menu
    THEN /\ active_orders' = [active_orders EXCEPT ![order_id].items =
                Append(@, [drink |-> drink_name, quantity |-> quantity])]
         /\ inventory' = [inventory EXCEPT ![drink_name] = @ - quantity]
         /\ UNCHANGED <<order_history, nonordervars>>
    ELSE UNCHANGED vars

\* BevTools.add_to_order
add_to_order(order_id, drink_name, quantity) ==
    IF add_to_order_returns(order_id, drink_name, quantity)
    THEN /\ active_orders' = [active_orders EXCEPT ![order_id].items =
                Append(@, [drink |-> drink_name, quantity |-> quantity])]
         /\ inventory' = [inventory EXCEPT ![drink_name] = @ - quantity]
         /\ UNCHANGED <<order_history, nonordervars>>
    ELSE UNCHANGED vars

\* The units of a drink in a list of order items.
UnitsIn(items, drink_name) ==
    SumSeq([k \in 1..Len(items) |->
        IF items[k].drink = drink_name THEN items[k].quantity ELSE 0])

\* BevTools.cancel_order: the items go back to the inventory and the order
\* is deleted.
cancel_order(order_id) ==
    IF order_id \notin DOMAIN active_orders THEN UNCHANGED vars
    ELSE /\ inventory' = [d \in DOMAIN inventory |->
                inventory[d] + UnitsIn(active_orders[order_id].items, d)]
         /\ active_orders' = [o \in DOMAIN active_orders \ {order_id} |-> active_orders[o]]
         /\ UNCHANGED <<order_history, nonordervars>>

\* ------------------------------------------------- TransactionTools
\* str.lower() on the payment methods used here.
LowerMethod(method) ==
    CASE method = "CASH" -> "cash"
      [] OTHER -> method

\* TransactionTools.validate_payment_method
validate_payment_method(method) ==
    LowerMethod(method) \in {"cash", "credit", "debit", "mobile"}

\* ------------------------------------------------------------ specifications
\* A drinks.json of two drinks.
SeedDrinks ==
    [n \in DrinkNames |-> [price |-> 1000, inventory |-> 10, sales |-> 0]]

\* The store as DatabaseDriver.__init__ leaves it when no drinks.json is
\* beside db_driver.py, and a new session.
Init ==
    /\ bevs = [id \in BevIds |-> NoBev]
    /\ tax_rates = <<>>
    /\ order_batches = <<>>
    /\ batch_items = <<>>
    /\ transactions = <<>>
    /\ transaction_items = <<>>
    /\ current_batch_id = 0
    /\ call = [w \in Workers |-> Idle]
    /\ drinks_data = SeedDrinks
    /\ orders = <<>>
    /\ active_orders = NoOrders
    /\ inventory = NoOrders
    /\ order_history = <<>>
    /\ bev_details = NoSelection
    /\ drink_recommendations = <<>>

\* Calls made one after the other, to the session layer and to the driver.
Next ==
    \/ \E id \in CatalogIds, b \in BevInputs : create_bev(id, b)
    \/ \E id \in CatalogIds : delete_bev(id)
    \/ initialize_tax_rates
    \/ \E items \in DirectItemLists, pm \in PaymentMethods :
          Len(transactions) < MaxTxns /\ api_create_transaction(items, pm)
    \/ \E t \in Tables :
          Len(order_batches) < MaxBatches /\ api_create_batch_order(t)
    \/ \E ref \in Refs, q \in Quantities :
          Len(batch_items) < MaxItems /\ api_add_to_batch(ref, q)
    \/ \E b \in BatchIds, id \in CatalogIds, q \in Quantities :
          Len(batch_items) < MaxItems /\ add_to_batch(b, id, q)
    \/ \E b \in BatchIds, pm \in PaymentMethods : finalize_batch(b, pm)
    \/ \E b \in BatchIds : cancel_batch(b)
    \/ \E pm \in PaymentMethods : api_finalize_batch(pm)
    \/ api_cancel_batch
    \/ \E b \in BatchIds, pm \in PaymentMethods :
          Len(transactions) < MaxTxns /\ process_batch_to_transaction(b, pm)

Spec == Init /\ [][Next]_vars

\* The catalog DatabaseDriver.__init__ loads from a drinks.json at first boot.
SeedBevs ==
    [id \in BevIds |-> [price |-> IF id = GT THEN 1000 ELSE 500,
                        inventory |-> 10, sales |-> 0]]

InitConcurrent ==
    /\ bevs = SeedBevs
    /\ tax_rates = <<>>
    /\ order_batches = <<>>
    /\ batch_items = <<>>
    /\ transactions = <<>>
    /\ transaction_items = <<>>
    /\ current_batch_id = 0
    /\ call = [w \in Workers |-> Idle]
    /\ drinks_data = SeedDrinks
    /\ orders = <<>>
    /\ active_orders = NoOrders
    /\ inventory = NoOrders
    /\ order_history = <<>>
    /\ bev_details = NoSelection
    /\ drink_recommendations = <<>>

\* Two callers of the driver whose finalize calls interleave and may die.
NextConcurrent ==
    \/ \E t \in Tables :
          Len(order_batches) < MaxBatches /\ create_batch_order(t) /\ UNCHANGED current_batch_id
    \/ \E b \in BatchIds, id \in CatalogIds, q \in Quantities :
          Len(batch_items) < MaxItems /\ add_to_batch(b, id, q)
    \/ \E b \in BatchIds, pm \in PaymentMethods : finalize_batch(b, pm)
    \/ \E b \in BatchIds : cancel_batch(b)
    \/ \E w \in Workers, b \in BatchIds, pm \in PaymentMethods : pbt_read(w, b, pm)
    \/ \E w \in Workers : Len(transactions) < MaxTxns /\ pbt_create_transaction(w)
    \/ \E w \in Workers : pbt_update_status(w)
    \/ \E w \in Workers : crash(w)

SpecConcurrent == InitConcurrent /\ [][NextConcurrent]_vars

\* The driver and the session layer called with unfiltered inputs, on a
\* catalog of one beverage.
InitInputs ==
    /\ bevs = [id \in BevIds |-> IF id = GT THEN SeedBevs[id] ELSE NoBev]
    /\ tax_rates = <<>>
    /\ order_batches = <<>>
    /\ batch_items = <<>>
    /\ transactions = <<>>
    /\ transaction_items = <<>>
    /\ current_batch_id = 0
    /\ call = [w \in Workers |-> Idle]
    /\ drinks_data = SeedDrinks
    /\ orders = <<>>
    /\ active_orders = NoOrders
    /\ inventory = NoOrders
    /\ order_history = <<>>
    /\ bev_details = NoSelection
    /\ drink_recommendations = <<>>

NextInputs ==
    \/ /\ Len(order_batches) < MaxBatches
       /\ create_batch_order(TableOfBatch(Len(order_batches) + 1))
       /\ UNCHANGED current_batch_id
    \/ \E b \in BatchIds, q \in AnyQuantities :
          Len(batch_items) < MaxItems /\ add_to_batch(b, GT, q)
    \/ \E items \in AnyItemLists, pm \in AnyPaymentMethods :
          Len(transactions) < MaxTxns /\ api_create_transaction(items, pm)
    \/ \E b \in BatchIds, pm \in AnyPaymentMethods :
          Len(transactions) < MaxTxns /\ process_batch_to_transaction(b, pm)
    \/ \E b \in BatchIds : cancel_batch(b)

SpecInputs == InitInputs /\ [][NextInputs]_vars

\* An empty catalog and a session with no beverage selected.
InitCatalog ==
    /\ bevs = [id \in CatalogKeys |-> NoBev]
    /\ tax_rates = <<>>
    /\ order_batches = <<>>
    /\ batch_items = <<>>
    /\ transactions = <<>>
    /\ transaction_items = <<>>
    /\ current_batch_id = 0
    /\ call = [w \in Workers |-> Idle]
    /\ drinks_data = SeedDrinks
    /\ orders = <<>>
    /\ active_orders = NoOrders
    /\ inventory = NoOrders
    /\ order_history = <<>>
    /\ bev_details = NoSelection
    /\ drink_recommendations = <<>>

\* One session and other callers of the driver editing the catalog.
NextCatalog ==
    \/ \E id \in CatalogKeys, b \in CatalogBevs : create_bev(id, b)
    \/ \E id \in CatalogKeys : delete_bev(id)
    \/ \E id \in CatalogKeys, b \in CatalogBevs : api_create_bev(id, b)
    \/ \E ref \in CatalogKeys : lookup_bev(ref)
    \/ \E id \in CatalogKeys, patch \in Patches : update_bev(id, patch)
    \/ \E id \in CatalogKeys : api_delete_bev(id)

SpecCatalog == InitCatalog /\ [][NextCatalog]_vars

\* DatabaseDriver._has_data: SELECT COUNT(*) FROM bevs is positive.
_has_data ==
    \E id \in DOMAIN bevs : bevs[id] # NoBev

\* The bevs table after DatabaseDriver._load_initial_data: one create_bev per
\* drink of drinks.json, under the id generated from its name.
_load_initial_data ==
    [id \in DOMAIN bevs |-> IF id \in DOMAIN SeedBevs THEN SeedBevs[id] ELSE bevs[id]]

\* DatabaseDriver.__init__, run at every start of a process that imports
\* api.py or web_server.py: the tables exist already, and the catalog is
\* loaded when bevs has no row.
DatabaseDriver_init ==
    /\ bevs' = IF _has_data THEN bevs ELSE _load_initial_data
    /\ UNCHANGED <<tax_rates, order_batches, batch_items, transactions,
                   transaction_items, current_batch_id, call, toolvars, sidevars>>

\* The store after the first boot beside a drinks.json, and a new session.
InitBoot ==
    /\ bevs = SeedBevs
    /\ tax_rates = <<>>
    /\ order_batches = <<>>
    /\ batch_items = <<>>
    /\ transactions = <<>>
    /\ transaction_items = <<>>
    /\ current_batch_id = 0
    /\ call = [w \in Workers |-> Idle]
    /\ drinks_data = SeedDrinks
    /\ orders = <<>>
    /\ active_orders = NoOrders
    /\ inventory = NoOrders
    /\ order_history = <<>>
    /\ bev_details = NoSelection
    /\ drink_recommendations = <<>>

\* Catalog operations of a session and of the driver, and later starts.
NextBoot ==
    \/ \E id \in BevIds, b \in CatalogBevs : create_bev(id, b)
    \/ \E id \in BevIds : delete_bev(id)
    \/ \E id \in BevIds, b \in CatalogBevs : api_create_bev(id, b)
    \/ \E ref \in Refs : lookup_bev(ref)
    \/ \E id \in BevIds : api_delete_bev(id)
    \/ DatabaseDriver_init

SpecBoot == InitBoot /\ [][NextBoot]_vars

\* An empty catalog and an empty recommendation table.
InitRecommendations ==
    /\ bevs = [id \in RecIds |-> NoBev]
    /\ tax_rates = <<>>
    /\ order_batches = <<>>
    /\ batch_items = <<>>
    /\ transactions = <<>>
    /\ transaction_items = <<>>
    /\ current_batch_id = 0
    /\ call = [w \in Workers |-> Idle]
    /\ drinks_data = SeedDrinks
    /\ orders = <<>>
    /\ active_orders = NoOrders
    /\ inventory = NoOrders
    /\ order_history = <<>>
    /\ bev_details = NoSelection
    /\ drink_recommendations = <<>>

\* The catalog is edited and recommendations are entered.
NextRecommendations ==
    \/ \E id \in RecIds, b \in RecBevs : create_bev(id, b)
    \/ \E id \in RecIds : delete_bev(id)
    \/ \E pr \in RecPairs, c \in Confidences : add_recommendation(pr[1], pr[2], c)

SpecRecommendations == InitRecommendations /\ [][NextRecommendations]_vars

\* The direct order path of tools.py against drinks.json.
InitOrders ==
    /\ bevs = [id \in BevIds |-> NoBev]
    /\ tax_rates = <<>>
    /\ order_batches = <<>>
    /\ batch_items = <<>>
    /\ transactions = <<>>
    /\ transaction_items = <<>>
    /\ current_batch_id = 0
    /\ call = [w \in Workers |-> Idle]
    /\ drinks_data \in [DrinkNames -> [price : {1000}, inventory : {1, 10}, sales : {0}]]
    /\ orders = <<>>
    /\ active_orders = NoOrders
    /\ inventory = NoOrders
    /\ order_history = <<>>
    /\ bev_details = NoSelection
    /\ drink_recommendations = <<>>

NextOrders ==
    \E items \in OrderLists, pm \in PaymentMethods :
        Len(orders) < MaxOrders /\ process_order(items, pm)

SpecOrders == InitOrders /\ [][NextOrders]_vars

\* BevTools after create_drink and update_inventory(drink, StockLevel) for
\* the two drinks, with no order yet.
InitTools ==
    /\ bevs = [id \in BevIds |-> NoBev]
    /\ tax_rates = <<>>
    /\ order_batches = <<>>
    /\ batch_items = <<>>
    /\ transactions = <<>>
    /\ transaction_items = <<>>
    /\ current_batch_id = 0
    /\ call = [w \in Workers |-> Idle]
    /\ drinks_data = SeedDrinks
    /\ orders = <<>>
    /\ bev_details = NoSelection
    /\ drink_recommendations = <<>>
    /\ active_orders = NoOrders
    /\ inventory = [d \in DrinkNames |-> StockLevel]
    /\ order_history = <<>>

NextTools ==
    \/ Cardinality(DOMAIN active_orders) < MaxActive /\ create_order
    \/ \E o \in OrderIds, d \in DrinkNames, q \in AddQuantities : add_to_order(o, d, q)
    \/ \E o \in OrderIds, st \in Statuses :
          /\ st = "completed" => Len(order_history) < MaxHistory
          /\ update_order_status(o, st)
    \/ \E o \in OrderIds : cancel_order(o)

SpecTools == InitTools /\ [][NextTools]_vars

\* ------------------------------------------------------------------ claims
Pending(batch_id) ==
    BatchExists(batch_id) /\ order_batches[batch_id].status = "pending"

Terminal(batch_id) ==
    BatchExists(batch_id) /\ order_batches[batch_id].status \in {"completed", "cancelled"}

\* The batch_items rows of a batch, joined to a beverage or not.
RowsOfBatch(batch_id) ==
    {i \in 1..Len(batch_items) : batch_items[i].batch_id = batch_id}

\* Some item of the batch asks for more than its beverage's inventory.
InsufficientStock(batch_id) ==
    \E i \in RowsOfBatch(batch_id) :
        /\ get_bev_by_id(batch_items[i].bev_id) # NoBev
        /\ batch_items[i].quantity > get_bev_by_id(batch_items[i].bev_id).inventory

\* The quantity of one beverage a batch holds.
QuantityIn(batch_id, id) ==
    SumSeq([k \in 1..Len(batch_items) |->
        IF batch_items[k].batch_id = batch_id /\ batch_items[k].bev_id = id
        THEN batch_items[k].quantity ELSE 0])

\* C1: a finalize of a Pending batch in which some item's quantity exceeds
\* its beverage's inventory fails as a whole: no beverage changes, no
\* transaction is created and the batch stays Pending.
C1_FinalizeAllOrNothing ==
    [][\A b \in BatchIds, pm \in PaymentMethods :
          ( /\ Pending(b)
            /\ InsufficientStock(b)
            /\ (process_batch_to_transaction(b, pm) \/ finalize_batch(b, pm)) )
          => /\ bevs' = bevs
             /\ transactions' = transactions
             /\ transaction_items' = transaction_items
             /\ order_batches' = order_batches]_vars

\* C2: a finalize that succeeds lowers each beverage's inventory by the
\* quantity of that beverage in the batch and raises its sales counter by
\* the same quantity.
C2_InventoryConservation ==
    [][\A b \in BatchIds, pm \in PaymentMethods :
          (pbt_succeeds(b) /\ process_batch_to_transaction(b, pm))
          => \A id \in BevIds :
                bevs[id] # NoBev =>
                   /\ bevs'[id] # NoBev
                   /\ bevs'[id].inventory = bevs[id].inventory - QuantityIn(b, id)
                   /\ bevs'[id].sales = bevs[id].sales + QuantityIn(b, id)]_vars

\* C3: in every reachable state every beverage's inventory is >= 0, in the
\* catalog and in the drinks data the direct order path writes.
C3_InventoryNonNegative ==
    /\ \A id \in BevIds : bevs[id] # NoBev => bevs[id].inventory >= 0
    /\ \A n \in DOMAIN drinks_data : drinks_data[n].inventory >= 0

\* C4: once a batch is Completed or Cancelled its status and its items never
\* change again, and a later finalize of it creates no transaction.
C4_TerminalIsFinal ==
    [][\A b \in BatchIds :
          Terminal(b) =>
             /\ order_batches'[b] = order_batches[b]
             /\ RowsOfBatch(b)' = RowsOfBatch(b)
             /\ \A i \in RowsOfBatch(b) : batch_items'[i] = batch_items[i]
             /\ \A pm \in PaymentMethods :
                   process_batch_to_transaction(b, pm) => transactions' = transactions]_vars

\* C5: of the finalize and cancel calls that run concurrently on one batch
\* (with items) at most one succeeds: a finalize returns its transaction, and
\* a cancel returns True, only for a batch that is still Pending at that
\* moment, so no batch yields two transactions.
C5_AtMostOneSucceeds ==
    [][ /\ \A w \in Workers :
              (pbt_update_status(w) /\ call[w].items # <<>>)
                 => Pending(call[w].batch_id)
        /\ \A b \in BatchIds : cancel_batch_returns(b) => Pending(b) ]_vars

\* The batch_items row a ledger line written by finalize came from.
RowOfItemId(item_id) ==
    CHOOSE i \in 1..Len(batch_items) : ToText(i) = item_id

\* The quantity of one beverage in the ledger lines finalize has committed.
QuantitySold(id) ==
    SumSeq([k \in 1..Len(transaction_items) |->
        IF batch_items[RowOfItemId(transaction_items[k].item_id)].bev_id = id
        THEN transaction_items[k].quantity ELSE 0])

\* C6: in every reachable state, also between two steps of finalize where a
\* crash may strike, the transaction of a finalize is committed only together
\* with the batch being Completed and the inventory decrement.
C6_FinalizeAtomic ==
    \A w \in Workers :
        (call[w].transaction_id # 0 /\ call[w].items # <<>>) =>
           /\ order_batches[call[w].batch_id].status = "completed"
           /\ \A id \in BevIds :
                 bevs[id].inventory = SeedBevs[id].inventory - QuantitySold(id)

\* Every committed ledger line belongs to a batch that is Completed.
LedgerSettled ==
    \A k \in 1..Len(transaction_items) :
        order_batches[batch_items[RowOfItemId(transaction_items[k].item_id)].batch_id].status
            = "completed"

\* Two different batches that hold the beverage have both been finalized.
SoldFromTwoBatches(id) ==
    \E b1, b2 \in BatchIds :
        /\ b1 # b2
        /\ Terminal(b1) /\ QuantityIn(b1, id) > 0
        /\ Terminal(b2) /\ QuantityIn(b2, id) > 0

\* C7: once the finalize calls of two batches holding the same beverage have
\* returned, the beverage's inventory is the inventory it started with minus
\* the quantities of every finalize that succeeded, and it is not negative.
C7_NoLostUpdate ==
    \A id \in BevIds :
        ( /\ \A w \in Workers : call[w].pc = "idle"
          /\ LedgerSettled
          /\ SoldFromTwoBatches(id) )
        => /\ bevs[id].inventory = SeedBevs[id].inventory - QuantitySold(id)
           /\ bevs[id].inventory >= 0

\* C8: a successful finalize of a Pending batch commits exactly one new
\* transaction with exactly one item per batch item and sets the batch
\* Completed (the id it returns is that of the new ledger row).
C8_OneItemPerBatchItem ==
    [][\A b \in BatchIds, pm \in PaymentMethods :
          (Pending(b) /\ pbt_succeeds(b) /\ process_batch_to_transaction(b, pm))
          => /\ Len(transactions') = Len(transactions) + 1
             /\ Len(transaction_items') - Len(transaction_items)
                   = Cardinality(RowsOfBatch(b))
             /\ order_batches'[b].status = "completed"]_vars

\* C9: the total of the transaction finalize writes is tax-inclusive: for
\* the default tax category it is the batch subtotal plus 7% of it.
C9_TotalTaxInclusive ==
    [][\A b \in BatchIds, pm \in PaymentMethods :
          (Pending(b) /\ pbt_succeeds(b) /\ process_batch_to_transaction(b, pm))
          => 100 * transactions'[Len(transactions')].total_amount
                = 107 * BatchSubtotal(b)]_vars

\* C10: batch_items changes only by one append, made to a batch that exists
\* and is Pending and carrying a beverage id that resolves; add_to_batch on
\* an absent or non-Pending batch or with an unresolved beverage appends nothing.
C10_AddItemGuarded ==
    [][ /\ batch_items' # batch_items =>
             \E b \in BatchIds, id \in BevIds, q \in Quantities :
                /\ Pending(b)
                /\ get_bev_by_id(id) # NoBev
                /\ batch_items' = Append(batch_items,
                      [batch_id |-> b, bev_id |-> id, quantity |-> q,
                       status |-> "pending"])
        /\ \A ref \in Refs, q \in Quantities :
              (api_add_to_batch(ref, q) /\ ~Pending(current_batch_id))
                 => batch_items' = batch_items ]_vars

\* C11: among the batch operations only a successful finalize may change
\* stock: create, addItem, cancel and every failed finalize leave the
\* inventory and sales of every beverage unchanged (view is a pure read).
C11_OnlyFinalizeChangesStock ==
    [][ ( \/ \E t \in Tables : create_batch_order(t)
          \/ \E b \in BatchIds, id \in BevIds, q \in Quantities : add_to_batch(b, id, q)
          \/ \E ref \in Refs, q \in Quantities : api_add_to_batch(ref, q)
          \/ \E b \in BatchIds : cancel_batch(b)
          \/ api_cancel_batch
          \/ \E b \in BatchIds, pm \in PaymentMethods : finalize_batch(b, pm)
          \/ \E pm \in PaymentMethods : api_finalize_batch(pm)
          \/ \E b \in BatchIds, pm \in PaymentMethods :
                ~pbt_succeeds(b) /\ process_batch_to_transaction(b, pm) )
        => bevs' = bevs ]_vars

\* An item of a stocked beverage was added to a batch, at full inventory.
C11_Witness ==
    /\ \E i \in 1..Len(batch_items) :
          /\ BatchExists(batch_items[i].batch_id)
          /\ batch_items[i].bev_id = GT
    /\ bevs[GT] # NoBev
    /\ bevs[GT].inventory = 10

\* C12: cancel succeeds exactly when the batch exists and is Pending.
C12_CancelSucceedsWhenPending ==
    \A b \in BatchIds : cancel_batch_returns(b) <=> Pending(b)

\* C13: finalize on a Pending batch that has no items fails: no transaction
\* is created and the batch stays Pending.
C13_EmptyBatchNotFinalized ==
    [][\A b \in BatchIds, pm \in PaymentMethods :
          (Pending(b) /\ RowsOfBatch(b) = {} /\ process_batch_to_transaction(b, pm))
          => /\ transactions' = transactions
             /\ order_batches' = order_batches]_vars

\* The transaction_items rows of one transaction.
ItemsOfTransaction(transaction_id) ==
    {k \in 1..Len(transaction_items) :
        transaction_items[k].transaction_id = transaction_id}

\* C14: no empty transaction is ever created: in every reachable state each
\* committed transaction has at least one item.
C14_NoEmptyTransaction ==
    \A t \in 1..Len(transactions) : ItemsOfTransaction(t) # {}

\* The batch's items as the list {beverageId, quantity, taxCategory} a caller
\* of record would pass for the same order.
AsRecordItems(batch_id) ==
    [k \in 1..Cardinality(RowsOfBatch(batch_id)) |->
        [ id |-> batch_items[Ascending(RowsOfBatch(batch_id))[k]].bev_id,
          quantity |-> batch_items[Ascending(RowsOfBatch(batch_id))[k]].quantity,
          tax_category |-> "pour/shot" ]]

\* C15: record and finalize share one tax/total computation: the transaction
\* a successful finalize writes has the per-item lineTotal and taxAmount and
\* the totals that record computes for the same list of items (all of them
\* in the catalog) against the same catalog.
C15_RecordFinalizeAgree ==
    [][\A b \in BatchIds, pm \in PaymentMethods :
          ( /\ Pending(b) /\ RowsOfBatch(b) # {} /\ pbt_succeeds(b)
            /\ \A i \in RowsOfBatch(b) : get_bev_by_id(batch_items[i].bev_id) # NoBev
            /\ process_batch_to_transaction(b, pm) )
          => LET rec == NewItemRows(AsRecordItems(b))
                 base == Len(transaction_items)
             IN  /\ Len(transactions') = Len(transactions) + 1
                 /\ transactions'[Len(transactions')].total_amount = TotalAmount(rec)
                 /\ transactions'[Len(transactions')].tax_amount = TotalTax(rec)
                 /\ Len(transaction_items') = base + Len(rec)
                 /\ \A k \in 1..Len(rec) :
                       /\ transaction_items'[base + k].line_total = rec[k].line_total
                       /\ transaction_items'[base + k].tax_amount = rec[k].tax_amount]_vars

\* C16: transactions are append-only: no step changes the stored fields or
\* the item rows of a committed transaction, or removes it.
C16_TransactionsAppendOnly ==
    [][ /\ Len(transactions') >= Len(transactions)
        /\ \A t \in 1..Len(transactions) : transactions'[t] = transactions[t]
        /\ Len(transaction_items') >= Len(transaction_items)
        /\ \A k \in 1..Len(transaction_items) :
              transaction_items'[k] = transaction_items[k] ]_vars

\* Two transactions are committed, the first with a priced item, and the
\* item's beverage has been deleted since.
C16_Witness ==
    /\ Len(transactions) = 2
    /\ transactions[1].total_amount > 0
    /\ bevs[GT] = NoBev

C18_LineTax ==
    \A id \in BevIds, q \in Quantities :
        IF bevs[id] = NoBev
        THEN calculate_item_tax(id, q, "bottle") = <<0, 0>>
        ELSE /\ calculate_item_tax(id, q, "bottle")
                   = <<bevs[id].price * q, bevs[id].price * q * 9>>
             /\ calculate_item_tax(id, q, "keg")
                   = <<bevs[id].price * q, bevs[id].price * q * 7>>

\* C19: the rate table is empty or holds exactly the four seeded rates, each
\* once; a seeding call leaves exactly these four rows, and once rows exist
\* no step changes the table.
C19_SeededOnce ==
    /\ [](tax_rates = <<>> \/ tax_rates = DefaultRates)
    /\ [][ /\ initialize_tax_rates => tax_rates' = DefaultRates
           /\ tax_rates # <<>> => tax_rates' = tax_rates ]_vars

\* The table is seeded and calls have been served since.
C19_Witness ==
    /\ tax_rates = DefaultRates
    /\ Len(tax_rates) = 4
    /\ Len(order_batches) > 0

\* C20: a failed finalize reports its cause as a result the caller can tell
\* apart: the result for an absent batch differs from the result for a batch
\* that is not Pending.
C20_TypedFailure ==
    \A b1, b2 \in BatchIds, pm \in PaymentMethods :
        (~BatchExists(b1) /\ Terminal(b2))
        => finalize_batch_returns(b1, pm) # finalize_batch_returns(b2, pm)

\* C21: every BatchItem and TransactionItem has quantity >= 1.
C21_QuantitiesPositive ==
    /\ \A i \in 1..Len(batch_items) : batch_items[i].quantity >= 1
    /\ \A k \in 1..Len(transaction_items) : transaction_items[k].quantity >= 1

\* C22: finalize and record called with an unrecognised payment method
\* change no state: no transaction is created, no inventory changes and the
\* batch status is unchanged.
C22_PaymentMethodChecked ==
    [][\A pm \in AnyPaymentMethods :
          ( /\ ~validate_payment_method(pm)
            /\ \/ \E items \in AnyItemLists : api_create_transaction(items, pm)
               \/ \E b \in BatchIds : process_batch_to_transaction(b, pm) )
          => /\ transactions' = transactions
             /\ transaction_items' = transaction_items
             /\ bevs' = bevs
             /\ order_batches' = order_batches]_vars

\* C23: batch ids and transaction ids are unique and strictly increasing in
\* creation order. No step removes a batch or a transaction or changes the id
\* of an existing item row; the id a step issues (the session's new current
\* batch, the transaction_id of new item rows) is that of the row the step
\* adds and is greater than every id issued before, also when failed and
\* rolled-back calls came in between.
C23_IdsMonotonic ==
    [][ /\ Len(order_batches') \in {Len(order_batches), Len(order_batches) + 1}
        /\ Len(transactions') \in {Len(transactions), Len(transactions) + 1}
        /\ (current_batch_id' # current_batch_id /\ current_batch_id' # 0)
              => /\ current_batch_id' > Len(order_batches)
                 /\ current_batch_id' = Len(order_batches')
        /\ Len(transaction_items') >= Len(transaction_items)
        /\ \A k \in 1..Len(transaction_items) :
              transaction_items'[k].transaction_id = transaction_items[k].transaction_id
        /\ \A k \in (Len(transaction_items) + 1)..Len(transaction_items') :
              /\ transaction_items'[k].transaction_id > Len(transactions)
              /\ transaction_items'[k].transaction_id = Len(transactions') ]_vars

\* Two transactions with the item rows of ids 1 and 2 and two batches, the
\* second being the session's current one.
C23_Witness ==
    /\ Len(transactions) = 2
    /\ \E k \in 1..Len(transaction_items) : transaction_items[k].transaction_id = 1
    /\ \E k \in 1..Len(transaction_items) : transaction_items[k].transaction_id = 2
    /\ Len(order_batches) = 2
    /\ current_batch_id = 2

\* The status or the items of a batch differ across the step.
BatchChanged(batch_id) ==
    \/ RowsOfBatch(batch_id)' # RowsOfBatch(batch_id)
    \/ \E i \in RowsOfBatch(batch_id) : batch_items'[i] # batch_items[i]
    \/ BatchExists(batch_id) /\ order_batches'[batch_id] # order_batches[batch_id]

\* C24: several batches are Pending side by side, and a step on one batch
\* (addItem, finalize, cancel) never changes the status or the items of any
\* other batch: no step changes two batches.
C24_BatchesIndependent ==
    [][\A b, o \in BatchIds : (o # b /\ BatchChanged(b)) => ~BatchChanged(o)]_vars

\* Two batches for different tables, each with an item, were Pending
\* together; one has been finalized and the other is still Pending.
C24_Witness ==
    /\ Len(order_batches) = 2
    /\ order_batches[1].table_number # order_batches[2].table_number
    /\ order_batches[1].status = "completed"
    /\ order_batches[2].status = "pending"
    /\ RowsOfBatch(1) # {}
    /\ RowsOfBatch(2) # {}

\* The id a free-text name stands for: lower-cased, spaces replaced by
\* underscores.
DerivedId(name) ==
    [i \in 1..Len(name) |->
        IF name[i] = " " THEN "_"
        ELSE IF name[i] = "G" THEN "g"
        ELSE IF name[i] = "T" THEN "t"
        ELSE name[i]]

\* A step of upsertBeverage(id, b), by the driver or through the session.
Upserted(id, b) ==
    create_bev(id, b) \/ api_create_bev(id, b)

\* C25 as stated: after upsertBeverage(id, b), findById(id) returns b, and
\* resolveByNameOrId finds id by the literal id and by every name whose
\* derived id is id.
C25_UpsertThenResolve ==
    [][\A id \in CatalogKeys, b \in CatalogBevs :
          Upserted(id, b)
          => /\ get_bev_by_id(id)' = b
             /\ ResolveRef(id)' = id
             /\ \A name \in CatalogKeys :
                   DerivedId(name) = id => ResolveRef(name)' = id]_vars

\* C25 amended: after upsertBeverage(id, b), findById(id) returns b, and
\* resolveByNameOrId finds id by the literal id and by every name whose
\* derived id is id and that is not itself the id of a stored beverage (a
\* name that is a stored id resolves to that beverage, literal id first).
C25_UpsertThenResolveUnshadowed ==
    [][\A id \in CatalogKeys, b \in CatalogBevs :
          Upserted(id, b)
          => /\ get_bev_by_id(id)' = b
             /\ ResolveRef(id)' = id
             /\ \A name \in CatalogKeys :
                   (DerivedId(name) = id /\ get_bev_by_id(name)' = NoBev)
                   => ResolveRef(name)' = id]_vars

\* The beverage g_t is stored and selected, found by the name "G T" whose
\* derived id it is, and no beverage has "G T" as its id.
C25_Witness ==
    /\ get_bev_by_id(GT) # NoBev
    /\ get_bev_by_id(NAME) = NoBev
    /\ ResolveRef(NAME) = GT
    /\ bev_details = Selected(GT, bevs[GT])

\* C26: upsertBeverage is an idempotent full overwrite. The catalog holds one
\* record per id; an upsert of id with b leaves b, with its inventory and
\* sales, as the record of id and every other record as it was; an upsert of
\* the record already stored changes nothing, and so does the same upsert
\* made a second time.
C26_UpsertOverwrites ==
    \A id \in CatalogKeys, b \in CatalogBevs :
        /\ DOMAIN UpsertRow(bevs, id, b) = DOMAIN bevs
        /\ UpsertRow(bevs, id, b)[id] = b
        /\ \A o \in CatalogKeys \ {id} : UpsertRow(bevs, id, b)[o] = bevs[o]
        /\ bevs[id] = b => UpsertRow(bevs, id, b) = bevs
        /\ UpsertRow(UpsertRow(bevs, id, b), id, b) = UpsertRow(bevs, id, b)

\* A stored beverage has been overwritten: its record has the sales and the
\* inventory of the second upsert, and the session selected it before.
C26_Witness ==
    /\ get_bev_by_id(GT) = [price |-> 1000, inventory |-> 1, sales |-> 5]
    /\ bev_details = Selected(GT, [price |-> 1000, inventory |-> 10, sales |-> 0])

\* C27: delete(id) returns true exactly when a beverage with that id existed,
\* and a session whose selected beverage references id has no selection after
\* it called delete(id), while any other selection is kept.
C27_DeleteClearsSelection ==
    \A id \in CatalogKeys :
        /\ delete_bev_returns(id) <=> get_bev_by_id(id) # NoBev
        /\ bev_details.id = id => SelectionAfterDelete(id) = NoSelection
        /\ bev_details.id # id => SelectionAfterDelete(id) = bev_details

\* C28: a reference resolves to the same beverage, or to none, at the entry
\* points that look it up as lookup and addItem do (literal id, then derived
\* id) and at those that look it up as update and delete do.
C28_SameResolution ==
    \A ref \in CatalogKeys : ResolveRef(ref) = LiteralRef(ref)

\* C29: view(batchId) is NotFound for an absent batch; for a stored batch it
\* lists the batch's current items, its subtotal is the sum of unit price x
\* quantity over them, its tax is 0.07 x subtotal and its total is
\* subtotal + tax.
C29_ViewAddsUp ==
    \A b \in BatchIds :
        IF ~BatchExists(b) THEN get_batch_order(b) = [error |-> "Batch order not found"]
        ELSE /\ {get_batch_order(b).items[k].id : k \in 1..Len(get_batch_order(b).items)}
                   = RowsOfBatch(b)
             /\ get_batch_order(b).subtotal =
                   SumSeq([k \in 1..Len(get_batch_order(b).items) |->
                       get_batch_order(b).items[k].unit_price
                           * get_batch_order(b).items[k].quantity])
             /\ get_batch_order(b).tax * 100 = get_batch_order(b).subtotal * 7 * 100
             /\ get_batch_order(b).total =
                   100 * get_batch_order(b).subtotal + get_batch_order(b).tax

\* The rows of drink_recommendations entered for a beverage.
RowsFor(bev_id) ==
    {i \in 1..Len(drink_recommendations) : drink_recommendations[i].bev_id = bev_id}

\* The other stored beverages with the category and subcategory of a stored
\* beverage.
Siblings(bev_id) ==
    {id \in RecIds \ {bev_id} :
        /\ bevs[id] # NoBev
        /\ bevs[id].category = bevs[bev_id].category
        /\ bevs[id].subcategory = bevs[bev_id].subcategory}

\* C30: recommendationsFor(id, limit) has at most limit entries; it is empty
\* for an unknown beverage; when rows were entered for id it consists of such
\* rows by confidence descending; otherwise it consists of the siblings of id
\* by sales descending, each with confidence 0.7.
C30_Recommendations ==
    \A id \in RecIds, limit \in Limits :
        LET r == get_recommendations(id, limit)
            n == Len(get_recommendations(id, limit))
        IN  /\ n <= limit
            /\ get_bev_by_id(id) = NoBev => r = <<>>
            /\ (get_bev_by_id(id) # NoBev /\ RowsFor(id) # {})
                  => /\ n > 0
                     /\ \A k \in 1..n : \E i \in RowsFor(id) :
                           /\ drink_recommendations[i].recommended_bev_id = r[k].id
                           /\ drink_recommendations[i].confidence = r[k].confidence
                     /\ \A k \in 1..(n - 1) : r[k].confidence >= r[k + 1].confidence
            /\ (get_bev_by_id(id) # NoBev /\ RowsFor(id) = {})
                  => /\ {r[k].id : k \in 1..n} \subseteq Siblings(id)
                     /\ n = (IF limit < Cardinality(Siblings(id)) THEN limit
                             ELSE Cardinality(Siblings(id)))
                     /\ \A k \in 1..n : r[k].confidence = 7
                     /\ \A k \in 1..(n - 1) : bevs[r[k].id].sales >= bevs[r[k + 1].id].sales

\* C31: upsertRecommendation is an upsert keyed by the ordered pair. There is
\* at most one row per (beverageId, recommendedBeverageId); after a call for
\* (a, b) with confidence c the row of (a, b) holds c, and the rows of every
\* other pair, (b, a) included, are as they were.
C31_RecommendationUpsert ==
    /\ [](\A i, j \in 1..Len(drink_recommendations) :
            ( /\ drink_recommendations[i].bev_id = drink_recommendations[j].bev_id
              /\ drink_recommendations[i].recommended_bev_id
                    = drink_recommendations[j].recommended_bev_id )
            => i = j)
    /\ [][\A pr \in RecPairs, c \in Confidences :
            add_recommendation(pr[1], pr[2], c)
            => /\ \E i \in 1..Len(drink_recommendations') :
                    drink_recommendations'[i] =
                        [bev_id |-> pr[1], recommended_bev_id |-> pr[2], confidence |-> c]
               /\ \A i \in 1..Len(drink_recommendations) :
                    i \notin RecRows(pr[1], pr[2])
                    => drink_recommendations'[i] = drink_recommendations[i]]_vars

\* The pairs (g_t, 1) and (1, g_t) are both stored, in the order (1, g_t)
\* first, with different confidences: the later call for (g_t, 1) left the
\* row of (1, g_t) alone.
C31_Witness ==
    /\ Len(drink_recommendations) = 2
    /\ drink_recommendations[1] =
          [bev_id |-> ONE, recommended_bev_id |-> GT, confidence |-> 5]
    /\ drink_recommendations[2] =
          [bev_id |-> GT, recommended_bev_id |-> ONE, confidence |-> 9]

\* C32: revenueSummary(date) returns the sums of total and tax and the count
\* over the date's transactions, and NotFound only when the date has none.
C32_RevenueAggregates ==
    IF transactions = <<>> THEN get_revenue_summary(Today) = NoSummary
    ELSE get_revenue_summary(Today) =
            [ total_sales |->
                  SumSeq([i \in 1..Len(transactions) |-> transactions[i].total_amount]),
              total_tax |->
                  SumSeq([i \in 1..Len(transactions) |-> transactions[i].tax_amount]),
              transactions |-> Len(transactions) ]

\* C33: the catalog was loaded at first boot, and no later start adds or
\* changes a beverage, whatever catalog operations came in between.
C33_LoadedOnce ==
    [][DatabaseDriver_init => bevs' = bevs]_vars

\* C34: each TransactionItem a successful finalize writes carries the
\* beverage id and the quantity of the batch item it came from, the beverage's
\* catalog price at finalize time as unitPrice, and lineTotal = unitPrice x
\* quantity (for a batch whose beverages are all in the catalog).
C34_FinalizeCopiesItems ==
    [][\A b \in BatchIds, pm \in PaymentMethods :
          ( /\ Pending(b) /\ RowsOfBatch(b) # {} /\ pbt_succeeds(b)
            /\ \A i \in RowsOfBatch(b) : get_bev_by_id(batch_items[i].bev_id) # NoBev
            /\ process_batch_to_transaction(b, pm) )
          => /\ Len(transaction_items') = Len(transaction_items) + Cardinality(RowsOfBatch(b))
             /\ \A k \in 1..Cardinality(RowsOfBatch(b)) :
                   LET from == batch_items[Ascending(RowsOfBatch(b))[k]]
                       row == transaction_items'[Len(transaction_items) + k]
                   IN  /\ row.item_id = from.bev_id
                       /\ row.quantity = from.quantity
                       /\ row.unit_price = get_bev_by_id(from.bev_id).price
                       /\ row.line_total = row.unit_price * row.quantity]_vars

\* C35: every TransactionItem belongs to a committed Transaction, and a
\* finalize that fails midway leaves no Transaction or TransactionItem row
\* behind: after the step in which the call dies, the ledger holds no
\* transaction of that call.
C35_LedgerIntegrity ==
    /\ [](\A k \in 1..Len(transaction_items) :
            transaction_items[k].transaction_id \in 1..Len(transactions))
    /\ [][\A w \in Workers :
            crash(w) => call[w].transaction_id \notin 1..Len(transactions')]_vars

\* C36: for every committed transaction the receipt's tax is the sum of the
\* tax of its listed items and the receipt's subtotal is the sum of the line
\* totals of its listed items, whatever happened to the catalog since.
C36_ReceiptMatchesLines ==
    \A t \in 1..Len(transactions) :
        /\ generate_receipt(t).tax =
              SumSeq([k \in 1..Len(generate_receipt(t).items) |->
                  transaction_items[generate_receipt(t).items[k]].tax_amount])
        /\ generate_receipt(t).subtotal =
              100 * SumSeq([k \in 1..Len(generate_receipt(t).items) |->
                  transaction_items[generate_receipt(t).items[k]].line_total])

\* C37: view(batchId) lists exactly the items added to the batch, one entry
\* per added item in insertion order, whatever catalog operations followed.
C37_ViewListsAddedItems ==
    \A b \in BatchIds :
        BatchExists(b)
        => [k \in 1..Len(get_batch_order(b).items) |-> get_batch_order(b).items[k].id]
              = Ascending(RowsOfBatch(b))

\* C38: the current-batch pointer of the session is set by create_batch_order
\* and cleared when the batch is finalized or cancelled, so that whenever it
\* is set it refers to an existing Pending batch; while it is not set, add,
\* finalize and cancel of the session change nothing.
C38_PointerIsPending ==
    /\ [](current_batch_id # 0
            => BatchExists(current_batch_id) /\ Pending(current_batch_id))
    /\ [][\A ref \in Refs, q \in Quantities, pm \in PaymentMethods :
            ( /\ current_batch_id = 0
              /\ \/ api_add_to_batch(ref, q)
                 \/ api_finalize_batch(pm)
                 \/ api_cancel_batch )
            => UNCHANGED vars]_vars

\* C39: create_order returns an id that is not in active_orders: the step
\* keeps every active order, with its items and status, and adds one.
C39_CreateKeepsOrders ==
    [][create_order
        => /\ \A o \in DOMAIN active_orders :
                 o \in DOMAIN active_orders' /\ active_orders'[o] = active_orders[o]
           /\ Cardinality(DOMAIN active_orders') = Cardinality(DOMAIN active_orders) + 1]_vars

\* The units of a drink held in the orders ids of the dict ords.
RECURSIVE UnitsHeld(_, _, _)
UnitsHeld(ords, ids, drink_name) ==
    IF ids = {} THEN 0
    ELSE LET o == CHOOSE x \in ids : TRUE
         IN  UnitsIn(ords[o].items, drink_name) + UnitsHeld(ords, ids \ {o}, drink_name)

\* The units of a drink held in the active orders that are not completed.
HeldOpen(drink_name) ==
    UnitsHeld(active_orders,
              {o \in DOMAIN active_orders : active_orders[o].status # "completed"},
              drink_name)

\* The units of a drink held in the active orders, whatever their status.
Held(drink_name) ==
    UnitsHeld(active_orders, DOMAIN active_orders, drink_name)

====
